---- MODULE Spec2Model ----
(***************************************************************************)
(* A model of gen (src/src/main.rs): a command-line tool that writes the   *)
(* next date-ordered SQL migration file `YYYYMMDDNN - <description>.sql`   *)
(* into the current working directory.  main() validates its arguments,    *)
(* walks up to the directory holding `.gen_root`, scans `<root>/**/*.sql`  *)
(* for the last index used today, composes the file name, creates the file *)
(* and writes the rendered template into it.                               *)
(*                                                                         *)
(* Strings are sequences of tokens, Option<T> is a set with at most one    *)
(* element ({} is None), a path is a sequence of directory names, and the  *)
(* file system is a function from the existing files to their content.     *)
(***************************************************************************)
EXTENDS Integers, Sequences, FiniteSets, TLC

\* ------------------------------------------------------------------ bounds
\* Files the tree holds before the first invocation.
MaxInitFiles == 2
\* Invocations one day of SpecDay runs one after the other.
MaxRuns == 3

\* ------------------------------------------------------- the model's world
\* The two invocations that may exist; Spec and SpecDay run only the first.
Procs == {1, 2}

\* The directory tree: "/", "/1", "/1/1", "/1/2".  Directory names are
\* numbers; every directory name sorts after a digit, as a letter does.
Dirs == {<<>>, <<1>>, <<1, 1>>, <<1, 2>>}

\* Local::now().date_naive(), as a day number.
Today == 1

\* The dates an eight-digit prefix can parse to: yesterday, today, tomorrow.
Dates == {Today - 1, Today, Today + 1}
\* An eight-digit prefix that is no calendar date (month 13, say); as a
\* string it sorts after the three dates.
BadDate == Today + 8
DateStrs == Dates \cup {BadDate}

Ops ==
    {"script", "create-table", "alter-table", "drop-table",
     "add-column", "alter-column", "drop-column"}
Names == {<<"my", " ", "tbl">>}
Columns == {{}, {"col"}}
Schemas == {{}, {"sch"}}

\* ------------------------------------------------------------- Operation
\* name.replace(' ', "_")
replace_spaces(name) ==
    [i \in 1..Len(name) |-> IF name[i] = " " THEN "_" ELSE name[i]]

\* column.unwrap() panics on None
unwrap_panics(op, column) ==
    /\ op \in {"add-column", "alter-column", "drop-column"}
    /\ column = {}

\* column.unwrap()
unwrap(column) == CHOOSE c \in column : TRUE

\* Operation::to_file_name, called with column present where it unwraps it
to_file_name(op, name, column) ==
    CASE op = "script" -> replace_spaces(name)
      [] op = "create-table" -> <<"create table", " ">> \o name
      [] op = "alter-table" -> <<"alter table", " ">> \o name
      [] op = "drop-table" -> <<"drop table", " ">> \o name
      [] op = "add-column" ->
            <<"add column", " ", unwrap(column), " ", "to", " ">> \o name
      [] op = "alter-column" ->
            <<"alter column", " ", unwrap(column), " ", "in", " ">> \o name
      [] op = "drop-column" ->
            <<"drop column", " ", unwrap(column), " ", "from", " ">> \o name

\* Operation::get_template_data: Some(TemplateData) or None
get_template_data(op, name, schema, column) ==
    LET dot == IF schema = {} THEN {} ELSE {"."}
    IN CASE op = "create-table" ->
              {[table_name |-> name, column_name |-> {}, schema_name |-> schema,
                dot |-> dot, template |-> "create_table.tmpl"]}
         [] op = "add-column" ->
              {[table_name |-> name, column_name |-> column, schema_name |-> schema,
                dot |-> dot, template |-> "add_column.tmpl"]}
         [] op = "drop-column" ->
              {[table_name |-> name, column_name |-> column, schema_name |-> schema,
                dot |-> dot, template |-> "drop_column.tmpl"]}
         [] OTHER -> {}

\* an Option<String> substituted into a template: nothing when None
Subst(opt) == IF opt = {} THEN <<>> ELSE <<unwrap(opt)>>

\* render_template when it succeeds: the text of the template with the
\* schema, the dot, the table and the column substituted
render_template(data) ==
    <<data.template>> \o Subst(data.schema_name) \o Subst(data.dot)
        \o data.table_name \o Subst(data.column_name)

\* Args::validate: TRUE when it returns Err("column is required")
validate_forgets_drop(a) ==
    /\ a.operation \in {"add-column", "alter-column"}
    /\ a.column = {}

validate(a) ==
    /\ a.operation \in {"add-column", "alter-column", "drop-column"}
    /\ a.column = {}

\* ------------------------------------------------------------- file names
\* A file `<dir>/<date><digs> - <desc>.sql`: the eight-digit date prefix,
\* the digits that follow it, and the description.
File(dir, date, digs, desc) ==
    [dir |-> dir, date |-> date, digs |-> digs, desc |-> desc]

\* format!("{index:02}"): at least two digits, more when the index needs them
Fmt02(index) ==
    IF index < 10 THEN <<0, index>>
    ELSE IF index < 100 THEN <<index \div 10, index % 10>>
    ELSE <<index \div 100, (index \div 10) % 10, index % 10>>

\* the regex ^\d{8}(\d{2}).*$ matches
regex_matches(f) == Len(f.digs) >= 2

\* capture group 1 parsed as i32
parse_index(f) == f.digs[1] * 10 + f.digs[2]

\* NaiveDate::parse_from_str(&name[..8], "%Y%m%d").ok()
parse_date(f) == IF f.date \in Dates THEN {f.date} ELSE {}

\* ------------------------------------------------------------------- glob
IsPrefix(s, t) == Len(s) <= Len(t) /\ SubSeq(t, 1, Len(s)) = s

\* lexicographic order of two sequences of numbers
RECURSIVE SeqLess(_, _)
SeqLess(s, t) ==
    IF s = <<>> THEN t # <<>>
    ELSE IF t = <<>> THEN FALSE
    ELSE IF Head(s) # Head(t) THEN Head(s) < Head(t)
    ELSE SeqLess(Tail(s), Tail(t))

\* the first token of a description, in byte order
PhraseRank(desc) ==
    CASE desc[1] = "add column" -> 1
      [] desc[1] = "alter column" -> 2
      [] desc[1] = "alter table" -> 3
      [] desc[1] = "create table" -> 4
      [] desc[1] = "drop column" -> 5
      [] desc[1] = "drop table" -> 6
      [] OTHER -> 7

\* byte order of two file names of one directory: the date, then the digits
\* and the space that ends them (a space sorts before every digit), then
\* the description
NameLess(f, g) ==
    IF f.date # g.date THEN f.date < g.date
    ELSE IF f.digs # g.digs THEN SeqLess(f.digs \o <<-1>>, g.digs \o <<-1>>)
    ELSE PhraseRank(f.desc) < PhraseRank(g.desc)

\* the order in which glob yields two files: each directory's entries sorted
\* by name, a directory's files (digits first) before its subdirectories
GlobLess(f, g) ==
    IF f.dir = g.dir THEN NameLess(f, g)
    ELSE IF IsPrefix(f.dir, g.dir) THEN TRUE
    ELSE IF IsPrefix(g.dir, f.dir) THEN FALSE
    ELSE SeqLess(f.dir, g.dir)

\* glob(root/**/*.sql) over the files `files`, in the order it yields them
RECURSIVE GlobSeq(_)
GlobSeq(S) ==
    IF S = {} THEN <<>>
    ELSE LET first == CHOOSE f \in S : \A g \in S \ {f} : GlobLess(f, g)
         IN <<first>> \o GlobSeq(S \ {first})

glob(root, files) == GlobSeq({f \in files : IsPrefix(root, f.dir)})

\* the filter_map closure: Some((date, last)) or None
entry(f) ==
    IF regex_matches(f) /\ parse_date(f) # {}
    THEN {<<unwrap(parse_date(f)), parse_index(f)>>}
    ELSE {}

\* Iterator::max_by(|a, b| a.0.cmp(&b.0)): a fold that keeps the later
\* element unless the earlier one compares Greater
RECURSIVE max_by_date(_, _)
max_by_date(acc, seq) ==
    IF seq = <<>> THEN acc
    ELSE LET e == entry(Head(seq))
             next == IF e = {} THEN acc
                     ELSE IF acc = {} THEN e
                     ELSE IF unwrap(acc)[1] > unwrap(e)[1] THEN acc
                     ELSE e
         IN max_by_date(next, Tail(seq))

\* the same scan with `>=` for `>` in the future test
find_last_future_ge(root, files) ==
    LET last == max_by_date({}, glob(root, files))
    IN IF last = {} THEN [err |-> FALSE, last |-> {}]
       ELSE IF unwrap(last)[1] >= Today THEN [err |-> TRUE, last |-> {}]
       ELSE [err |-> FALSE, last |-> {}]

\* find_last_file_for_current_day: err is the "found date in future" error,
\* last is the Option<i32> it returns otherwise
find_last_file_for_current_day(root, files) ==
    LET last == max_by_date({}, glob(root, files))
    IN IF last = {} THEN [err |-> FALSE, last |-> {}]
       ELSE IF unwrap(last)[1] > Today THEN [err |-> TRUE, last |-> {}]
       ELSE IF unwrap(last)[1] = Today
            THEN [err |-> FALSE, last |-> {unwrap(last)[2]}]
       ELSE [err |-> FALSE, last |-> {}]

\* last_index.map(|index| index + 1).unwrap_or(1)
next_index(last_index) ==
    IF last_index = {} THEN 1 ELSE unwrap(last_index) + 1

\* ------------------------------------------------------------------ state
VARIABLES
    sentinels,   \* the directories that hold a .gen_root file
    fs,          \* the .sql files of the tree: file -> content
    pc,          \* where each invocation stands in main
    args,        \* Args::parse(): operation, name, column, schema
    cwd,         \* env::current_dir()
    cur,         \* find_root's current_dir
    root,        \* find_root's result
    last_index,  \* find_last_file_for_current_day's result
    file_name,   \* the path main passes to File::create, once composed
    template,    \* Option<Result<String>>: the rendered template
    err,         \* the error main returned, "" when none
    fs0,         \* history: the tree before the first invocation
    clobbered,   \* history: File::create was handed a path that existed
    raced,       \* history: an invocation scanned while another stood
                 \* between its own scan and its File::create
    runs         \* invocations started so far

vars ==
    <<sentinels, fs, pc, args, cwd, cur, root, last_index, file_name,
      template, err, fs0, clobbered, raced, runs>>

locals == <<args, cwd, cur, root, last_index, file_name, template, err>>
world == <<sentinels, fs, fs0, clobbered>>

NoArgs == [operation |-> "script", name |-> <<>>, column |-> {}, schema |-> {}]

\* ------------------------------------------------------------ initial trees
\* the description of every file the tree starts with
InitDesc == to_file_name("create-table", CHOOSE n \in Names : TRUE, {})

\* date prefix and digits of the files the tree may start with
InitKinds ==
    {<<Today - 1, <<0, 1>>>>, <<Today, <<0, 1>>>>, <<Today, <<9, 9>>>>,
     <<Today + 1, <<0, 1>>>>, <<BadDate, <<0, 1>>>>, <<Today + 1, <<>>>>}

InitCandidates ==
    {File(d, k[1], k[2], InitDesc) : d \in Dirs, k \in InitKinds}

RECURSIVE SubsetsUpTo(_, _)
SubsetsUpTo(S, k) ==
    IF k = 0 THEN {{}}
    ELSE LET smaller == SubsetsUpTo(S, k - 1)
         IN smaller \cup {T \cup {x} : T \in smaller, x \in S}

\* the content of a file the tree starts with
OldContent == <<"old">>

InitWith(sentinelChoices, fileChoices) ==
    /\ sentinels \in sentinelChoices
    /\ \E files \in fileChoices : fs = [f \in files |-> OldContent]
    /\ fs0 = fs
    /\ pc = [p \in Procs |-> "start"]
    /\ args = [p \in Procs |-> NoArgs]
    /\ cwd = [p \in Procs |-> <<>>]
    /\ cur = [p \in Procs |-> <<>>]
    /\ root = [p \in Procs |-> <<>>]
    /\ last_index = [p \in Procs |-> {}]
    /\ file_name = [p \in Procs |-> {}]
    /\ template = [p \in Procs |-> {}]
    /\ err = [p \in Procs |-> ""]
    /\ clobbered = FALSE
    /\ raced = FALSE
    /\ runs = 1

\* one invocation, the root at "/" or at "/1", any small tree of files
Init ==
    InitWith({{<<>>}, {<<1>>}}, SubsetsUpTo(InitCandidates, MaxInitFiles))

\* one invocation, .gen_root in any set of directories, no files
InitRoot == InitWith(SUBSET Dirs, {{}})

\* a day that starts with no file dated today: one root, and no file or one
\* file of yesterday
InitDay ==
    InitWith({{d} : d \in Dirs},
             {{}} \cup {{File(d, Today - 1, <<0, 1>>, InitDesc)} : d \in {<<1>>}})

\* two invocations at once, the root at "/" or at "/1", no files
InitRace == InitWith({{<<>>}, {<<1>>}}, {{}})

\* ---------------------------------------------------------------- actions
Fail(p, why) ==
    /\ pc' = [pc EXCEPT ![p] = "failed"]
    /\ err' = [err EXCEPT ![p] = why]

\* main, lines 111-114: Args::parse, args.validate()?, env::current_dir()
Start(p) ==
    /\ pc[p] = "start"
    /\ \E op \in Ops, n \in Names, c \in Columns, s \in Schemas, d \in Dirs :
         LET a == [operation |-> op, name |-> n, column |-> c, schema |-> s]
         IN /\ args' = [args EXCEPT ![p] = a]
            /\ IF validate(a)
               THEN /\ Fail(p, "validation")
                    /\ UNCHANGED <<cwd, cur>>
               ELSE /\ pc' = [pc EXCEPT ![p] = "find_root"]
                    /\ cwd' = [cwd EXCEPT ![p] = d]
                    /\ cur' = [cur EXCEPT ![p] = d]
                    /\ UNCHANGED err
    /\ UNCHANGED <<world, root, last_index, file_name, template, raced, runs>>

\* find_root without the test of the starting directory
FindRootSkipsStart(p) ==
    /\ pc[p] = "find_root"
    /\ IF Len(cur[p]) > 0 /\ SubSeq(cur[p], 1, Len(cur[p]) - 1) \in sentinels
       THEN /\ root' = [root EXCEPT ![p] = SubSeq(cur[p], 1, Len(cur[p]) - 1)]
            /\ pc' = [pc EXCEPT ![p] = "scan"]
            /\ UNCHANGED <<cur, err>>
       ELSE IF Len(cur[p]) > 0
       THEN /\ cur' = [cur EXCEPT ![p] = SubSeq(cur[p], 1, Len(cur[p]) - 1)]
            /\ UNCHANGED <<root, pc, err>>
       ELSE /\ Fail(p, "root")
            /\ UNCHANGED <<root, cur>>
    /\ UNCHANGED <<world, args, cwd, last_index, file_name, template, raced, runs>>

\* one iteration of find_root's loop
FindRootStep(p) ==
    /\ pc[p] = "find_root"
    /\ IF cur[p] \in sentinels
       THEN /\ root' = [root EXCEPT ![p] = cur[p]]
            /\ pc' = [pc EXCEPT ![p] = "scan"]
            /\ UNCHANGED <<cur, err>>
       ELSE IF Len(cur[p]) > 0
       THEN /\ cur' = [cur EXCEPT ![p] = SubSeq(cur[p], 1, Len(cur[p]) - 1)]
            /\ UNCHANGED <<root, pc, err>>
       ELSE /\ Fail(p, "root")
            /\ UNCHANGED <<root, cur>>
    /\ UNCHANGED <<world, args, cwd, last_index, file_name, template, raced, runs>>

\* the path main composes (lines 121-127) and the template it renders
\* (lines 130-133)
ComposedName(p, last) ==
    File(cwd[p], Today, Fmt02(next_index(last)),
         to_file_name(args[p].operation, args[p].name, args[p].column))

Rendered(p, ok) ==
    LET data == get_template_data(args[p].operation, args[p].name,
                                  args[p].schema, args[p].column)
    IN IF data = {} THEN {}
       ELSE IF ok THEN {[ok |-> TRUE, text |-> render_template(unwrap(data))]}
       ELSE {[ok |-> FALSE, text |-> <<>>]}

\* File::create(path): the file exists afterwards and is empty
file_create(files, path) ==
    [f \in DOMAIN files \cup {path} |-> IF f = path THEN <<>> ELSE files[f]]

\* main with File::create moved before the scan
ScanAfterCreate(p) ==
    /\ pc[p] = "scan"
    /\ LET r == find_last_file_for_current_day(root[p], DOMAIN fs)
       IN /\ fs' = file_create(fs, ComposedName(p, {}))
          /\ IF r.err
             THEN /\ Fail(p, "future")
                  /\ UNCHANGED <<last_index, file_name, template>>
             ELSE /\ pc' = [pc EXCEPT ![p] = "write"]
                  /\ last_index' = [last_index EXCEPT ![p] = r.last]
                  /\ file_name' = [file_name EXCEPT ![p] = {ComposedName(p, {})}]
                  /\ template' = [template EXCEPT ![p] = Rendered(p, TRUE)]
                  /\ UNCHANGED err
    /\ UNCHANGED <<sentinels, fs0, clobbered, args, cwd, cur, root, raced, runs>>

\* main, lines 119-133: the scan, the index, the file name, the template
Scan(p) ==
    /\ pc[p] = "scan"
    /\ LET r == find_last_file_for_current_day(root[p], DOMAIN fs)
       IN IF r.err
          THEN /\ Fail(p, "future")
               /\ UNCHANGED <<last_index, file_name, template>>
          ELSE IF unwrap_panics(args[p].operation, args[p].column)
          THEN /\ pc' = [pc EXCEPT ![p] = "panicked"]
               /\ last_index' = [last_index EXCEPT ![p] = r.last]
               /\ UNCHANGED <<file_name, template, err>>
          ELSE \E ok \in BOOLEAN :
               /\ pc' = [pc EXCEPT ![p] = "create"]
               /\ last_index' = [last_index EXCEPT ![p] = r.last]
               /\ file_name' = [file_name EXCEPT ![p] = {ComposedName(p, r.last)}]
               /\ template' = [template EXCEPT ![p] = Rendered(p, ok)]
               /\ UNCHANGED err
    /\ raced' = (raced \/ \E q \in Procs \ {p} : pc[q] = "create")
    /\ UNCHANGED <<world, args, cwd, cur, root, runs>>

\* File::create replaced by create_new: an existing path is an error
CreateNew(p) ==
    /\ pc[p] = "create"
    /\ LET path == unwrap(file_name[p])
       IN IF path \in DOMAIN fs
          THEN /\ Fail(p, "exists")
               /\ UNCHANGED <<fs, clobbered>>
          ELSE /\ fs' = file_create(fs, path)
               /\ pc' = [pc EXCEPT ![p] = "write"]
               /\ UNCHANGED <<err, clobbered>>
    /\ UNCHANGED <<sentinels, fs0, args, cwd, cur, root, last_index,
                   file_name, template, raced, runs>>

\* main, line 135: File::create(current_dir.join(file_name))
Create(p) ==
    /\ pc[p] = "create"
    /\ LET path == unwrap(file_name[p])
       IN /\ fs' = file_create(fs, path)
          /\ clobbered' = (clobbered \/ path \in DOMAIN fs)
    /\ pc' = [pc EXCEPT ![p] = "write"]
    /\ UNCHANGED <<sentinels, fs0, locals, raced, runs>>

\* main, lines 136-141: template?, file.write_all, Ok(())
Write(p) ==
    /\ pc[p] = "write"
    /\ IF template[p] = {}
       THEN /\ pc' = [pc EXCEPT ![p] = "done"]
            /\ UNCHANGED <<fs, err>>
       ELSE IF ~unwrap(template[p]).ok
       THEN /\ Fail(p, "render")
            /\ UNCHANGED fs
       ELSE /\ fs' = [fs EXCEPT ![unwrap(file_name[p])] = unwrap(template[p]).text]
            /\ pc' = [pc EXCEPT ![p] = "done"]
            /\ UNCHANGED err
    /\ UNCHANGED <<sentinels, fs0, clobbered, args, cwd, cur, root, last_index,
                   file_name, template, raced, runs>>

\* main returned Ok(()) and the process has exited; the next invocation of
\* the day begins
Exit(p) ==
    /\ pc[p] = "done"
    /\ runs < MaxRuns
    /\ runs' = runs + 1
    /\ pc' = [pc EXCEPT ![p] = "start"]
    /\ args' = [args EXCEPT ![p] = NoArgs]
    /\ cwd' = [cwd EXCEPT ![p] = <<>>]
    /\ cur' = [cur EXCEPT ![p] = <<>>]
    /\ root' = [root EXCEPT ![p] = <<>>]
    /\ last_index' = [last_index EXCEPT ![p] = {}]
    /\ file_name' = [file_name EXCEPT ![p] = {}]
    /\ template' = [template EXCEPT ![p] = {}]
    /\ err' = [err EXCEPT ![p] = ""]
    /\ UNCHANGED <<world, raced>>

\* --------------------------------------------------------- specifications
Run(p) == Start(p) \/ FindRootStep(p) \/ Scan(p) \/ Create(p) \/ Write(p)

\* one invocation
Next == Run(1)
Spec == Init /\ [][Next]_vars

\* one invocation that keeps running until it exits
RootSpec == InitRoot /\ [][Next]_vars /\ WF_vars(Next)

\* the successful invocations of one day, one after the other
NextDay == Run(1) \/ Exit(1)
SpecDay == InitDay /\ [][NextDay]_vars

\* two invocations at once
NextRace == \E p \in Procs : Run(p)
SpecRace == InitRace /\ [][NextRace]_vars

\* ------------------------------------------------------- what claims say
Max(S) == CHOOSE x \in S : \A y \in S : y <= x

\* the directories from d up to the filesystem root
Chain(d) == {SubSeq(d, 1, k) : k \in 0..Len(d)}

\* the files under r that the scanner's pattern matches and that are dated today
TodayEntries(r, files) ==
    {f \in files : IsPrefix(r, f.dir) /\ regex_matches(f) /\ f.date = Today}

\* find_root returned Ok for invocation p
RootFound(p) ==
    \/ pc[p] \in {"scan", "create", "write", "done"}
    \/ pc[p] = "failed" /\ err[p] \in {"future", "render"}

\* the scan of invocation p returned Ok
ScanDone(p) ==
    \/ pc[p] \in {"create", "write", "done"}
    \/ pc[p] = "failed" /\ err[p] = "render"

\* the scan of invocation p returned, Ok or Err
ScanRan(p) == ScanDone(p) \/ (pc[p] = "failed" /\ err[p] = "future")

\* C1: once the scan of one invocation has succeeded, the file it names has
\* index 1 when no scanned file is dated today and N+1 when the largest index
\* of the scanned files dated today is N, written as exactly two digits.
C1_NextIndexInTwoDigits ==
    ScanDone(1) =>
        LET T == TodayEntries(root[1], DOMAIN fs0)
            expected == IF T = {} THEN 1 ELSE Max({parse_index(f) : f \in T}) + 1
            digs == unwrap(file_name[1]).digs
        IN /\ Len(digs) = 2
           /\ digs[1] * 10 + digs[2] = expected

\* C2: on a day that started with no file dated today, when an invocation has
\* succeeded, the files dated today under the root all carry a two-digit
\* index, no two carry the same one, and the file just written carries an
\* index greater than that of every other.
C2_TodayIndicesUniqueIncreasing ==
    pc[1] = "done" =>
        LET r == CHOOSE d \in sentinels : TRUE
            T == {f \in DOMAIN fs : IsPrefix(r, f.dir) /\ f.date = Today}
            new == unwrap(file_name[1])
        IN /\ \A f \in T : Len(f.digs) = 2
           /\ \A f, g \in T : f # g => f.digs # g.digs
           /\ \A g \in T \ {new} : parse_index(g) < parse_index(new)

C4_ValidateIffColumnMissing ==
    /\ pc[1] # "start" =>
          (err[1] = "validation"
              <=> /\ args[1].operation \in {"add-column", "alter-column", "drop-column"}
                  /\ args[1].column = {})
    /\ pc[1] # "panicked"

\* drop-column without a column was refused
C4_Witness ==
    /\ pc[1] = "failed"
    /\ err[1] = "validation"
    /\ args[1].operation = "drop-column"

\* find_root's answer: the nearest directory of the chain that holds the
\* sentinel, and the root-not-found error exactly when none does
C5_Safe ==
    /\ RootFound(1) =>
          /\ root[1] \in sentinels \cap Chain(cwd[1])
          /\ \A d \in sentinels \cap Chain(cwd[1]) : Len(d) <= Len(root[1])
    /\ (pc[1] = "failed" /\ err[1] = "root") => sentinels \cap Chain(cwd[1]) = {}
    /\ (pc[1] \notin {"start", "find_root"} /\ sentinels \cap Chain(cwd[1]) = {})
          => (pc[1] = "failed" /\ err[1] \in {"root", "validation"})

\* C5: find_root returns the nearest directory on the chain from the starting
\* directory to the filesystem root that holds .gen_root, fails with the
\* root-not-found error exactly when none does, and its loop terminates.
C5_FindRootNearest ==
    /\ []C5_Safe
    /\ (pc[1] = "find_root") ~> (pc[1] # "find_root")

\* find_root passed over the starting directory and returned the nearer of
\* two directories that hold the sentinel
C5_Witness ==
    /\ pc[1] = "scan"
    /\ root[1] # cwd[1]
    /\ \E d \in sentinels : Len(d) < Len(root[1])

\* C6: when the scan succeeds and files are dated today, the index it returns
\* is the largest index of the files dated today, in whatever order the glob
\* yields them.
C6_ReturnsLargestIndexOfToday ==
    LET T == TodayEntries(root[1], DOMAIN fs0)
    IN (ScanDone(1) /\ T # {}) =>
           last_index[1] = {Max({parse_index(f) : f \in T})}

\* C7: an invocation whose template failed to render leaves no file that was
\* not there before.
C7_RenderFailureLeavesNoFile ==
    (pc[1] = "failed" /\ err[1] = "render") => DOMAIN fs = DOMAIN fs0

\* C8: an invocation that failed at validation, at the root or at the scan
\* has left the tree as it was.
C8_EarlyFailureLeavesTree ==
    (pc[1] = "failed" /\ err[1] \in {"validation", "root", "future"}) => fs = fs0

\* the scan failed on a future-dated file of a tree that holds files
C8_Witness ==
    /\ pc[1] = "failed"
    /\ err[1] = "future"
    /\ DOMAIN fs0 # {}

\* C9: when one invocation scans while the other stands between its scan and
\* its File::create, both under the same root, nothing stops either: both
\* select the same date and index, and neither fails for it.
C9_RaceSelectsSameIndex ==
    (raced /\ root[1] = root[2]) =>
        /\ \A p \in Procs : err[p] \in {"", "render"}
        /\ (ScanDone(1) /\ ScanDone(2)) =>
              /\ unwrap(file_name[1]).digs = unwrap(file_name[2]).digs
              /\ unwrap(file_name[1]).date = unwrap(file_name[2]).date

\* both invocations raced, both returned Ok, and two files share one
\* date and index
C9_Witness ==
    /\ raced
    /\ pc[1] = "done" /\ pc[2] = "done"
    /\ unwrap(file_name[1]) # unwrap(file_name[2])
    /\ {unwrap(file_name[1]), unwrap(file_name[2])} \subseteq DOMAIN fs
    /\ unwrap(file_name[1]).digs = unwrap(file_name[2]).digs
    /\ unwrap(file_name[1]).date = unwrap(file_name[2]).date

\* C10: when an invocation of the day has succeeded, no File::create of the
\* day was handed the path of a file that already existed.
C10_CreateNeverTruncates ==
    pc[1] = "done" => ~clobbered

====
